---- MODULE Spec2Model ----
(***************************************************************************)
(* Model of two real-time primitives of the Prusa firmware:                *)
(*   - Timer<T> (Firmware/Timer.cpp): start, expired, elapsed,             *)
(*     expired_cont over a free-running counter of the width of T;         *)
(*   - the second serial line (Firmware/uart2.cpp): uart2_init,            *)
(*     uart2_putchar, uart2_getchar and the receive interrupt              *)
(*     ISR(USART2_RX_vect) around the ring buffer uart2_ibuf;              *)
(* and of lay1cal_load_filament of the first layer calibration.            *)
(* The ring buffer primitives rbuf_ini/rbuf_put/rbuf_get/rbuf_empty live   *)
(* in rbuf.h/rbuf.c, which are not part of the excerpt; they are modelled  *)
(* after section 4.1 of the specification.                                 *)
(***************************************************************************)
EXTENDS Integers, Sequences, FiniteSets, TLC

(***************************************************************************)
(* Bounds of the model.                                                    *)
(***************************************************************************)
\* Width in bits of the scaled-down counter type T that is explored
\* exhaustively (every started, now and period in [0, 2^TimerBits)).
TimerBits == 3

\* Ticks the 16-bit timer instance is followed for.
MaxTicks == 12

\* sizeof(uart2_ibuf) in the model. The firmware declares uint8_t uart2_ibuf[20];
\* the model keeps the 4 bytes uart2_init subtracts and scales the array down.
IbufSize == 9

\* Bytes that arrive on the line during a run.
MaxArrivals == 6

\* Calls of uart2_putchar during a run.
MaxSent == 2

\* Highest filament slot of the MMU that is tried; slots are numbered from 0.
MaxTool == 3

\* Calls of lay1cal_load_filament during a run.
MaxCalls == 2

(***************************************************************************)
(* Program constants.                                                      *)
(***************************************************************************)
\* Width of unsigned short on the AVR target: template class Timer<unsigned short>.
ShortBits == 16

\* rbuf_ini(uart2_ibuf, sizeof(uart2_ibuf) - 4)
IbufOverhead == 4

\* Slots of the ring buffer kept empty to tell full from empty (specification 4.1:
\* "single-producer/single-consumer with one reserved slot").
Reserve == 1

\* (uint8_t)MMU2::FILAMENT_UNKNOWN: the value of get_current_tool() when no
\* slot is loaded, outside the range of the slots.
FILAMENT_UNKNOWN == 255

(***************************************************************************)
(* State.                                                                  *)
(***************************************************************************)
VARIABLES
    \* ---- Timer<T> ----
    bits,          \* width of T of the instance under study
    now,           \* _millis() converted to T
    m_started,     \* Timer<T>::m_started
    m_isRunning,   \* Timer<T>::m_isRunning
    t_op,          \* the last operation performed on the timer ("tick" for the counter)
    t_arg,         \* its msPeriod argument
    t_ret,         \* its return value
    t_wasRunning,  \* m_isRunning when the last operation was entered
    everStarted,   \* history: start() has been called
    since,         \* history: ticks since the last start(), saturating at 2^bits
    polls,         \* history: evaluations of expired() on a running timer since the last start(), saturating at 2
    trues,         \* history: expired() calls that returned true since the last start(), saturating at 2
    ticks,         \* history: ticks since construction, counted for the 16-bit instance only
    starts,        \* history: calls of start(), saturating at 2
    gap,           \* history: ticks since the running timer was last polled or started, saturating at 2^bits + 1
    \* ---- second serial line ----
    uart2_ibuf,    \* the inbound ring buffer: sizeof the array, length l, write index w, read index r, stored bytes data
    rxcie,         \* UCSR2B bit RXCIE2: the receive interrupt is enabled
    txready,       \* uart2_txready: UCSR2A bit UDRE2
    pc,            \* position of the main program flow
    m_c,           \* uart2_putchar: its argument c
    g_w,           \* rbuf_get: the write index it read
    g_r,           \* rbuf_get: the read index it read
    g_b,           \* rbuf_get: the byte it loaded
    u_op,          \* the last call the main flow made or is making
    u_ret,         \* the value that call returned
    ini_ret,       \* what rbuf_ini reported to uart2_init
    isr_ret,       \* what rbuf_put returned to the last run of the receive interrupt
    arrived,       \* history: number of bytes that arrived (runs of the receive interrupt)
    accepted,      \* history: the arrived bytes whose rbuf_put did not report Full, in order
    received,      \* history: the bytes uart2_getchar returned, in order
    diag,          \* history: number of "USART2 rx Full!!!" diagnostics printed
    sent,          \* history: the bytes written to UDR2, in order
    gc_oldest,     \* history: the oldest byte buffered when uart2_getchar made its emptiness check, -1 if none
    gc_r0,         \* history: the read index when uart2_getchar was called
    gc_irq,        \* history: the receive interrupt fired between the emptiness check of that call and its rbuf_get
    pc_spun,       \* history: the current uart2_putchar call found the transmitter not ready
    capPhase,      \* history: "fill" while bytes arrive into a buffer that was empty and no byte
                   \*   has been taken since, "drain" while they are then read with no arrival, else "none"
    capBytes,      \* history: the bytes that arrived during the fill
    capStart,      \* history: number of bytes accepted before the fill
    capGot,        \* history: what the uart2_getchar calls of the drain returned
    \* ---- first layer calibration ----
    mmu_enabled,   \* MMU2::mmu2.Enabled()
    current_tool,  \* MMU2::mmu2.get_current_tool()
    cmdqueue,      \* the commands handed to enquecommand_P and enquecommandf_P, in order
    l_filament,    \* lay1cal_load_filament: its argument filament in the last call
    l_ret,         \* lay1cal_load_filament: what the last call returned
    l_before,      \* history: number of commands enqueued before the last call
    l_calls        \* history: calls of lay1cal_load_filament

tvars == <<bits, now, m_started, m_isRunning, t_op, t_arg, t_ret, t_wasRunning,
           everStarted, since, polls, trues, ticks, starts, gap>>

uvars == <<uart2_ibuf, rxcie, txready, pc, m_c, g_w, g_r, g_b, u_op, u_ret, ini_ret,
           isr_ret, arrived, accepted, received, diag, sent, gc_oldest, gc_r0,
           gc_irq, pc_spun, capPhase, capBytes, capStart, capGot>>

lvars == <<mmu_enabled, current_tool, cmdqueue, l_filament, l_ret, l_before, l_calls>>

vars == <<tvars, uvars, lvars>>

(***************************************************************************)
(* Timer<T>                                                                *)
(***************************************************************************)
RECURSIVE Pow2(_)
Pow2(n) == IF n = 0 THEN 1 ELSE 2 * Pow2(n - 1)

\* Number of values of T: arithmetic on T is modulo Mod(b).
Mod(b) == Pow2(b)

Min(a, b) == IF a < b THEN a ELSE b

\* Counter values the 16-bit instance may be constructed at (close to the wrap).
ShortInitNow == {65525, 65530}

\* Periods the 16-bit instance is polled with.
ShortPeriods == {0, 1, 10}

Periods(b) == IF b = ShortBits THEN ShortPeriods ELSE 0 .. (Mod(b) - 1)

\* The comparison with && for || in the branch of the deadline that did not wrap.
ExpiredCmp_AndOr(started, n, msPeriod, M) ==
    LET deadline == (started + msPeriod) % M
    IN  IF started <= deadline
        THEN (n >= deadline) /\ (n < started)
        ELSE (n >= deadline) /\ (n < started)

\* The comparison with > for >= against the deadline.
ExpiredCmp_Strict(started, n, msPeriod, M) ==
    LET deadline == (started + msPeriod) % M
    IN  IF started <= deadline
        THEN (n > deadline) \/ (n < started)
        ELSE (n > deadline) /\ (n < started)

\* The comparison without "|| (now < m_started)" where the deadline did not wrap.
ExpiredCmp_NoWrapBranch(started, n, msPeriod, M) ==
    LET deadline == (started + msPeriod) % M
    IN  IF started <= deadline
        THEN (n >= deadline)
        ELSE (n >= deadline) /\ (n < started)

\* The comparison without the else branch, of the deadline that wrapped.
ExpiredCmp_NoElseBranch(started, n, msPeriod, M) ==
    LET deadline == (started + msPeriod) % M
    IN  IF started <= deadline
        THEN (n >= deadline) \/ (n < started)
        ELSE FALSE

\* The comparison of Timer<T>::expired, on a running timer. The operands are of
\* type T (unsigned short and unsigned long promote to an unsigned type of
\* their own width on the AVR target), so started + msPeriod wraps modulo M.
ExpiredCmp(started, n, msPeriod, M) ==
    LET deadline == (started + msPeriod) % M
    IN  IF started <= deadline
        THEN (n >= deadline) \/ (n < started)
        ELSE (n >= deadline) /\ (n < started)

\* Timer<T>::elapsed without the wraparound of the subtraction in T.
ElapsedValue_NoWrap(started, n, running, M) ==
    IF running THEN (IF n >= started THEN n - started ELSE 0) ELSE 0

\* Timer<T>::elapsed as a value.
ElapsedValue(started, n, running, M) ==
    IF running THEN (n - started + M) % M ELSE 0

\* Timer<T>::Timer: not running.
InitTimer ==
    /\ bits \in {TimerBits, ShortBits}
    /\ now \in (IF bits = ShortBits THEN ShortInitNow ELSE 0 .. (Mod(bits) - 1))
    /\ m_started = 0
    /\ m_isRunning = FALSE
    /\ t_op = "none"
    /\ t_arg = 0
    /\ t_ret = 0
    /\ t_wasRunning = FALSE
    /\ everStarted = FALSE
    /\ since = 0
    /\ polls = 0
    /\ trues = 0
    /\ ticks = 0
    /\ starts = 0
    /\ gap = 0

\* The counter source advances by one tick.
Tick ==
    /\ bits = ShortBits => ticks < MaxTicks
    /\ now' = (now + 1) % Mod(bits)
    /\ since' = IF everStarted THEN Min(since + 1, Mod(bits)) ELSE since
    /\ ticks' = IF bits = ShortBits THEN ticks + 1 ELSE ticks
    /\ t_op' = "tick"
    /\ t_arg' = 0
    /\ t_ret' = 0
    /\ t_wasRunning' = m_isRunning
    /\ gap' = IF m_isRunning THEN Min(gap + 1, Mod(bits) + 1) ELSE gap
    /\ UNCHANGED <<bits, m_started, m_isRunning, everStarted, polls, trues, starts>>
    /\ UNCHANGED <<uvars, lvars>>

\* Timer<T>::start keeping the reference point of a timer that is running.
start_KeepsReference ==
    /\ m_started' = IF m_isRunning THEN m_started ELSE now
    /\ m_isRunning' = TRUE
    /\ t_op' = "start"
    /\ t_arg' = 0
    /\ t_ret' = 0
    /\ t_wasRunning' = m_isRunning
    /\ everStarted' = TRUE
    /\ since' = 0
    /\ polls' = 0
    /\ trues' = 0
    /\ starts' = Min(starts + 1, 2)
    /\ gap' = 0
    /\ UNCHANGED <<bits, now, ticks>>
    /\ UNCHANGED <<uvars, lvars>>

\* Timer<T>::start
start ==
    /\ m_started' = now
    /\ m_isRunning' = TRUE
    /\ t_op' = "start"
    /\ t_arg' = 0
    /\ t_ret' = 0
    /\ t_wasRunning' = m_isRunning
    /\ everStarted' = TRUE
    /\ since' = 0
    /\ polls' = 0
    /\ trues' = 0
    /\ starts' = Min(starts + 1, 2)
    /\ gap' = 0
    /\ UNCHANGED <<bits, now, ticks>>
    /\ UNCHANGED <<uvars, lvars>>

\* Timer<T>::expired without "if (expired) m_isRunning = false".
ExpiredBody_NoStop(msPeriod) ==
    IF ~m_isRunning
    THEN [ret |-> FALSE, running |-> m_isRunning]
    ELSE [ret |-> ExpiredCmp(m_started, now, msPeriod, Mod(bits)), running |-> m_isRunning]

\* Timer<T>::expired without "if (!m_isRunning) return false".
ExpiredBody_NoRunningCheck(msPeriod) ==
    LET e == ExpiredCmp(m_started, now, msPeriod, Mod(bits))
    IN  [ret |-> e, running |-> IF e THEN FALSE ELSE m_isRunning]

\* Timer<T>::expired clearing m_isRunning whatever the comparison says.
ExpiredBody_StopsAlways(msPeriod) ==
    IF ~m_isRunning
    THEN [ret |-> FALSE, running |-> m_isRunning]
    ELSE [ret |-> ExpiredCmp(m_started, now, msPeriod, Mod(bits)), running |-> FALSE]

\* The body of Timer<T>::expired: the value returned and the new m_isRunning.
ExpiredBody(msPeriod) ==
    IF ~m_isRunning
    THEN [ret |-> FALSE, running |-> m_isRunning]
    ELSE LET e == ExpiredCmp(m_started, now, msPeriod, Mod(bits))
         IN  [ret |-> e, running |-> IF e THEN FALSE ELSE m_isRunning]

\* Timer<T>::expired
expired(msPeriod) ==
    LET b == ExpiredBody(msPeriod)
    IN  /\ t_ret' = b.ret
        /\ m_isRunning' = b.running
        /\ t_op' = "expired"
        /\ t_arg' = msPeriod
        /\ t_wasRunning' = m_isRunning
        /\ polls' = IF m_isRunning THEN Min(polls + 1, 2) ELSE polls
        /\ trues' = IF b.ret THEN Min(trues + 1, 2) ELSE trues
        /\ gap' = IF m_isRunning THEN 0 ELSE gap
        /\ UNCHANGED <<bits, now, m_started, everStarted, since, ticks, starts>>
        /\ UNCHANGED <<uvars, lvars>>

\* Timer<T>::elapsed
elapsed ==
    /\ t_ret' = ElapsedValue(m_started, now, m_isRunning, Mod(bits))
    /\ t_op' = "elapsed"
    /\ t_arg' = 0
    /\ t_wasRunning' = m_isRunning
    /\ UNCHANGED <<bits, now, m_started, m_isRunning, everStarted, since, polls, trues, ticks,
                   starts, gap>>
    /\ UNCHANGED <<uvars, lvars>>

\* Timer<T>::expired_cont returning expired(msPeriod) alone.
expired_cont_Edge(msPeriod) ==
    LET b == ExpiredBody(msPeriod)
    IN  /\ t_ret' = b.ret
        /\ m_isRunning' = b.running
        /\ t_op' = "expired_cont"
        /\ t_arg' = msPeriod
        /\ t_wasRunning' = m_isRunning
        /\ polls' = IF m_isRunning THEN Min(polls + 1, 2) ELSE polls
        /\ trues' = IF m_isRunning /\ b.ret THEN Min(trues + 1, 2) ELSE trues
        /\ gap' = IF m_isRunning THEN 0 ELSE gap
        /\ UNCHANGED <<bits, now, m_started, everStarted, since, ticks, starts>>
        /\ UNCHANGED <<uvars, lvars>>

\* Timer<T>::expired_cont: !m_isRunning || expired(msPeriod)
expired_cont(msPeriod) ==
    LET b == ExpiredBody(msPeriod)
    IN  /\ t_ret' = (~m_isRunning \/ b.ret)
        /\ m_isRunning' = IF ~m_isRunning THEN m_isRunning ELSE b.running
        /\ t_op' = "expired_cont"
        /\ t_arg' = msPeriod
        /\ t_wasRunning' = m_isRunning
        /\ polls' = IF m_isRunning THEN Min(polls + 1, 2) ELSE polls
        /\ trues' = IF m_isRunning /\ b.ret THEN Min(trues + 1, 2) ELSE trues
        /\ gap' = IF m_isRunning THEN 0 ELSE gap
        /\ UNCHANGED <<bits, now, m_started, everStarted, since, ticks, starts>>
        /\ UNCHANGED <<uvars, lvars>>

(***************************************************************************)
(* The ring buffer of rbuf.h, after section 4.1 of the specification.      *)
(***************************************************************************)
\* Bytes that may arrive on the line or be written to it.
Bytes == {65, 66, 67}

\* Slots of uart2_ibuf that rbuf_ini is given: sizeof(uart2_ibuf) - 4.
IbufLen == IbufSize - IbufOverhead

\* init(capacity): both positions reset, length set; fails below reserve + 1.
RbufIni(buf, l) ==
    IF l < Reserve + 1
    THEN [buf |-> buf, ret |-> -1]
    ELSE [buf |-> [buf EXCEPT !.l = l, !.w = 0, !.r = 0], ret |-> 0]

\* isEmpty(): read position equals write position.
RbufEmpty(buf) == buf.r = buf.w

\* Full: advancing the write position would reach the read position.
RbufFull(buf) == (buf.w + Reserve) % buf.l = buf.r

\* put(byte): Full and no mutation, or the byte stored at the write position
\* and the write position advanced modulo the length.
RbufPut(buf, b) ==
    IF RbufFull(buf)
    THEN [buf |-> buf, ret |-> -1]
    ELSE [buf |-> [buf EXCEPT !.data[buf.w] = b, !.w = (buf.w + 1) % buf.l], ret |-> 0]

\* get(): the read position advanced modulo the length.
RbufAdvance(r, l) == (r + 1) % l

(***************************************************************************)
(* The second serial line.                                                 *)
(***************************************************************************)
\* History: the bytes accepted and not yet returned to the consumer.
Pending == SubSeq(accepted, Len(received) + 1, Len(accepted))

\* uint8_t uart2_ibuf[size] = {0, 0}; FILE _uart2io; before uart2_init.
InitUartOf(size) ==
    /\ uart2_ibuf = [size |-> size, l |-> 0, w |-> 0, r |-> 0,
                     data |-> [i \in 0 .. (IbufSize - 1) |-> 0]]
    /\ rxcie = FALSE
    /\ txready \in BOOLEAN
    /\ pc = "boot"
    /\ m_c = 0
    /\ g_w = 0
    /\ g_r = 0
    /\ g_b = 0
    /\ u_op = "none"
    /\ u_ret = 0
    /\ ini_ret = 0
    /\ isr_ret = 0
    /\ arrived = 0
    /\ accepted = <<>>
    /\ received = <<>>
    /\ diag = 0
    /\ sent = <<>>
    /\ gc_oldest = -1
    /\ gc_r0 = 0
    /\ gc_irq = FALSE
    /\ pc_spun = FALSE
    /\ capPhase = "none"
    /\ capBytes = <<>>
    /\ capStart = 0
    /\ capGot = <<>>

\* uint8_t uart2_ibuf[20] = {0, 0}; FILE _uart2io; before uart2_init.
InitUart == InitUartOf(IbufSize)

rxHistory == <<arrived, accepted, diag, isr_ret>>
getLocals == <<g_w, g_r, g_b>>
getHistory == <<received, gc_oldest, gc_r0>>
capHistory == <<capPhase, capBytes, capStart, capGot>>

\* Positions of the main flow inside rbuf_get, called by uart2_getchar.
GetPcs == {"gc_get", "gc_load", "gc_store"}

\* uart2_init passing the whole array to rbuf_ini.
uart2_init_rbuf_WholeArray ==
    /\ pc = "boot"
    /\ LET i == RbufIni(uart2_ibuf, IbufSize)
       IN  /\ uart2_ibuf' = i.buf
           /\ ini_ret' = i.ret
    /\ pc' = "ini_regs"
    /\ u_op' = "init"
    /\ capPhase' = "fill"
    /\ UNCHANGED <<rxcie, txready, m_c, u_ret, sent, gc_irq, pc_spun, capBytes, capStart, capGot>>
    /\ UNCHANGED <<rxHistory, getLocals, getHistory>>
    /\ UNCHANGED <<tvars, lvars>>

\* uart2_init subtracting 5 for 4.
uart2_init_rbuf_OneLess ==
    /\ pc = "boot"
    /\ LET i == RbufIni(uart2_ibuf, IbufLen - 1)
       IN  /\ uart2_ibuf' = i.buf
           /\ ini_ret' = i.ret
    /\ pc' = "ini_regs"
    /\ u_op' = "init"
    /\ capPhase' = "fill"
    /\ UNCHANGED <<rxcie, txready, m_c, u_ret, sent, gc_irq, pc_spun, capBytes, capStart, capGot>>
    /\ UNCHANGED <<rxHistory, getLocals, getHistory>>
    /\ UNCHANGED <<tvars, lvars>>

\* uart2_init enabling the receive interrupt where it should call rbuf_ini.
uart2_init_rbuf_RxFirst ==
    /\ pc = "boot"
    /\ rxcie' = TRUE
    /\ pc' = "ini_regs"
    /\ u_op' = "init"
    /\ capPhase' = "fill"
    /\ UNCHANGED <<uart2_ibuf, ini_ret, txready, m_c, u_ret, sent, gc_irq, pc_spun, capBytes, capStart, capGot>>
    /\ UNCHANGED <<rxHistory, getLocals, getHistory>>
    /\ UNCHANGED <<tvars, lvars>>

\* uart2_init: DDRH, PORTH; rbuf_ini(uart2_ibuf, sizeof(uart2_ibuf) - 4)
uart2_init_rbuf ==
    /\ pc = "boot"
    /\ LET i == RbufIni(uart2_ibuf, uart2_ibuf.size - IbufOverhead)
       IN  /\ uart2_ibuf' = i.buf
           /\ ini_ret' = i.ret
    /\ pc' = "ini_regs"
    /\ u_op' = "init"
    /\ capPhase' = "fill"
    /\ UNCHANGED <<rxcie, txready, m_c, u_ret, sent, gc_irq, pc_spun, capBytes, capStart, capGot>>
    /\ UNCHANGED <<rxHistory, getLocals, getHistory>>
    /\ UNCHANGED <<tvars, lvars>>

\* uart2_init: UCSR2A |= U2X2; UBRR2L = ...; UCSR2B = RXEN2 | TXEN2
uart2_init_regs ==
    /\ pc = "ini_regs"
    /\ rxcie' = FALSE
    /\ pc' = "ini_rxcie"
    /\ UNCHANGED <<uart2_ibuf, txready, m_c, u_op, u_ret, ini_ret, sent>>
    /\ UNCHANGED <<rxHistory, getLocals, getHistory>>
    /\ UNCHANGED <<gc_irq, pc_spun, capHistory>>
    /\ UNCHANGED <<tvars, lvars>>

\* uart2_init: UCSR2B |= RXCIE2
uart2_init_rxcie ==
    /\ pc = "ini_rxcie"
    /\ rxcie' = TRUE
    /\ pc' = "ini_stream"
    /\ UNCHANGED <<uart2_ibuf, txready, m_c, u_op, u_ret, ini_ret, sent>>
    /\ UNCHANGED <<rxHistory, getLocals, getHistory>>
    /\ UNCHANGED <<gc_irq, pc_spun, capHistory>>
    /\ UNCHANGED <<tvars, lvars>>

\* uart2_init: fdev_setup_stream(uart2io, uart2_putchar, uart2_getchar, ...); return
uart2_init_stream ==
    /\ pc = "ini_stream"
    /\ pc' = "idle"
    /\ UNCHANGED <<uart2_ibuf, rxcie, txready, m_c, u_op, u_ret, ini_ret, sent>>
    /\ UNCHANGED <<rxHistory, getLocals, getHistory>>
    /\ UNCHANGED <<gc_irq, pc_spun, capHistory>>
    /\ UNCHANGED <<tvars, lvars>>

\* uart2_putchar(c) is entered.
uart2_putchar_call(c) ==
    /\ pc = "idle"
    /\ Len(sent) < MaxSent
    /\ m_c' = c
    /\ pc' = "pc_wait"
    /\ u_op' = "putchar"
    /\ u_ret' = 0
    /\ UNCHANGED <<uart2_ibuf, rxcie, txready, ini_ret, sent>>
    /\ UNCHANGED <<rxHistory, getLocals, getHistory>>
    /\ pc_spun' = FALSE
    /\ UNCHANGED <<gc_irq, capHistory>>
    /\ UNCHANGED <<tvars, lvars>>

\* uart2_putchar without the wait for uart2_txready.
uart2_putchar_wait_NoWait ==
    /\ pc = "pc_wait"
    /\ pc' = "pc_write"
    /\ UNCHANGED <<uart2_ibuf, rxcie, txready, m_c, u_op, u_ret, ini_ret, sent>>
    /\ UNCHANGED <<rxHistory, getLocals, getHistory>>
    /\ UNCHANGED <<gc_irq, pc_spun, capHistory>>
    /\ UNCHANGED <<tvars, lvars>>

\* uart2_putchar: while (!uart2_txready);
uart2_putchar_wait ==
    /\ pc = "pc_wait"
    /\ pc' = IF txready THEN "pc_write" ELSE "pc_wait"
    /\ UNCHANGED <<uart2_ibuf, rxcie, txready, m_c, u_op, u_ret, ini_ret, sent>>
    /\ UNCHANGED <<rxHistory, getLocals, getHistory>>
    /\ pc_spun' = (pc_spun \/ ~txready)
    /\ UNCHANGED <<gc_irq, capHistory>>
    /\ UNCHANGED <<tvars, lvars>>

\* uart2_putchar: UDR2 = c; return 0. Writing UDR2 clears UDRE2.
uart2_putchar_write ==
    /\ pc = "pc_write"
    /\ sent' = Append(sent, m_c)
    /\ txready' = FALSE
    /\ u_ret' = 0
    /\ m_c' = 0
    /\ pc' = "idle"
    /\ UNCHANGED <<uart2_ibuf, rxcie, u_op, ini_ret>>
    /\ UNCHANGED <<rxHistory, getLocals, getHistory>>
    /\ UNCHANGED <<gc_irq, pc_spun, capHistory>>
    /\ UNCHANGED <<tvars, lvars>>

\* The transmitter has moved the byte on: UDRE2 is set again.
TxComplete ==
    /\ pc \notin {"boot", "ini_regs"}
    /\ ~txready
    /\ txready' = TRUE
    /\ UNCHANGED <<uart2_ibuf, rxcie, pc, m_c, u_op, u_ret, ini_ret, sent>>
    /\ UNCHANGED <<rxHistory, getLocals, getHistory>>
    /\ UNCHANGED <<gc_irq, pc_spun, capHistory>>
    /\ UNCHANGED <<tvars, lvars>>

\* History of the fill and drain: uart2_getchar returns v, a byte it took or
\* -1 from a buffer found empty. A drain ends with the first -1; an empty
\* buffer outside a drain starts the next fill.
CapAfterGet(v) ==
    IF capPhase = "drain" /\ (capGot = <<>> \/ capGot[Len(capGot)] # -1)
    THEN /\ capGot' = Append(capGot, v)
         /\ UNCHANGED <<capPhase, capBytes, capStart>>
    ELSE IF capPhase = "none" /\ v = -1
    THEN /\ capPhase' = "fill"
         /\ capBytes' = <<>>
         /\ capStart' = Len(accepted)
         /\ capGot' = <<>>
    ELSE UNCHANGED <<capPhase, capBytes, capStart, capGot>>

\* History of the fill and drain: byte b arrives. A fill is followed for as
\* many arrivals as the buffer has slots, one more than it can hold.
CapAfterArrival(b) ==
    IF capPhase = "fill" /\ Len(capBytes) < IbufLen
    THEN /\ capBytes' = Append(capBytes, b)
         /\ UNCHANGED <<capPhase, capStart, capGot>>
    ELSE IF capPhase = "drain" /\ capGot # <<>> /\ capGot[Len(capGot)] = -1
    THEN /\ capPhase' = "fill"
         /\ capBytes' = <<b>>
         /\ capStart' = Len(accepted)
         /\ capGot' = <<>>
    ELSE /\ capPhase' = "none"
         /\ capBytes' = <<>>
         /\ capStart' = 0
         /\ capGot' = <<>>

\* uart2_getchar returning 0 from an empty buffer.
uart2_getchar_check_RetZero ==
    /\ pc = "idle"
    /\ u_op' = "getchar"
    /\ gc_oldest' = IF Pending = <<>> THEN -1 ELSE Head(Pending)
    /\ gc_r0' = uart2_ibuf.r
    /\ gc_irq' = FALSE
    /\ IF RbufEmpty(uart2_ibuf)
       THEN /\ u_ret' = 0
            /\ pc' = "idle"
            /\ CapAfterGet(0)
       ELSE /\ u_ret' = 0
            /\ pc' = "gc_get"
            /\ capPhase' = IF capPhase = "fill" THEN "drain" ELSE capPhase
            /\ UNCHANGED <<capBytes, capStart, capGot>>
    /\ UNCHANGED <<uart2_ibuf, rxcie, txready, m_c, ini_ret, sent, received, pc_spun>>
    /\ UNCHANGED <<rxHistory, getLocals>>
    /\ UNCHANGED <<tvars, lvars>>

\* uart2_getchar waiting for a byte instead of returning -1.
uart2_getchar_check_Blocking ==
    /\ pc = "idle"
    /\ ~RbufEmpty(uart2_ibuf)
    /\ u_op' = "getchar"
    /\ gc_oldest' = IF Pending = <<>> THEN -1 ELSE Head(Pending)
    /\ gc_r0' = uart2_ibuf.r
    /\ gc_irq' = FALSE
    /\ u_ret' = 0
    /\ pc' = "gc_get"
    /\ capPhase' = IF capPhase = "fill" THEN "drain" ELSE capPhase
    /\ UNCHANGED <<capBytes, capStart, capGot>>
    /\ UNCHANGED <<uart2_ibuf, rxcie, txready, m_c, ini_ret, sent, received, pc_spun>>
    /\ UNCHANGED <<rxHistory, getLocals>>
    /\ UNCHANGED <<tvars, lvars>>

\* uart2_getchar: if (rbuf_empty(uart2_ibuf)) return -1;
uart2_getchar_check ==
    /\ pc = "idle"
    /\ u_op' = "getchar"
    /\ gc_oldest' = IF Pending = <<>> THEN -1 ELSE Head(Pending)
    /\ gc_r0' = uart2_ibuf.r
    /\ gc_irq' = FALSE
    /\ IF RbufEmpty(uart2_ibuf)
       THEN /\ u_ret' = -1
            /\ pc' = "idle"
            /\ CapAfterGet(-1)
       ELSE /\ u_ret' = 0
            /\ pc' = "gc_get"
            /\ capPhase' = IF capPhase = "fill" THEN "drain" ELSE capPhase
            /\ UNCHANGED <<capBytes, capStart, capGot>>
    /\ UNCHANGED <<uart2_ibuf, rxcie, txready, m_c, ini_ret, sent, received, pc_spun>>
    /\ UNCHANGED <<rxHistory, getLocals>>
    /\ UNCHANGED <<tvars, lvars>>

\* rbuf_get: the indices are read; nothing is returned from an empty buffer.
rbuf_get_enter ==
    /\ pc = "gc_get"
    /\ IF uart2_ibuf.r = uart2_ibuf.w
       THEN /\ u_ret' = -1
            /\ pc' = "idle"
            /\ UNCHANGED <<g_w, g_r>>
       ELSE /\ u_ret' = 0
            /\ pc' = "gc_load"
            /\ g_w' = uart2_ibuf.w
            /\ g_r' = uart2_ibuf.r
    /\ UNCHANGED <<uart2_ibuf, rxcie, txready, m_c, u_op, ini_ret, sent, g_b>>
    /\ UNCHANGED <<rxHistory, getHistory>>
    /\ UNCHANGED <<gc_irq, pc_spun, capHistory>>
    /\ UNCHANGED <<tvars, lvars>>

\* rbuf_get: the byte at the read position is loaded.
rbuf_get_load ==
    /\ pc = "gc_load"
    /\ g_b' = uart2_ibuf.data[g_r]
    /\ pc' = "gc_store"
    /\ UNCHANGED <<uart2_ibuf, rxcie, txready, m_c, u_op, u_ret, ini_ret, sent, g_w, g_r>>
    /\ UNCHANGED <<rxHistory, getHistory>>
    /\ UNCHANGED <<gc_irq, pc_spun, capHistory>>
    /\ UNCHANGED <<tvars, lvars>>

\* rbuf_get: the read position is advanced and the byte returned;
\* uart2_getchar returns it.
rbuf_get_store ==
    /\ pc = "gc_store"
    /\ uart2_ibuf' = [uart2_ibuf EXCEPT !.r = RbufAdvance(g_r, uart2_ibuf.l)]
    /\ u_ret' = g_b
    /\ received' = Append(received, g_b)
    /\ g_w' = 0
    /\ g_r' = 0
    /\ g_b' = 0
    /\ pc' = "idle"
    /\ CapAfterGet(g_b)
    /\ UNCHANGED <<rxcie, txready, m_c, u_op, ini_ret, sent, gc_oldest, gc_r0, gc_irq, pc_spun>>
    /\ UNCHANGED rxHistory
    /\ UNCHANGED <<tvars, lvars>>

\* The receive interrupt dropping the byte without the diagnostic.
USART2_RX_vect_Silent(b) ==
    /\ rxcie
    /\ arrived < MaxArrivals
    /\ LET p == RbufPut(uart2_ibuf, b)
       IN  /\ uart2_ibuf' = p.buf
           /\ isr_ret' = p.ret
           /\ accepted' = IF p.ret < 0 THEN accepted ELSE Append(accepted, b)
    /\ arrived' = arrived + 1
    /\ gc_irq' = (gc_irq \/ pc = "gc_get")
    /\ CapAfterArrival(b)
    /\ UNCHANGED <<rxcie, txready, pc, m_c, u_op, u_ret, ini_ret, sent, pc_spun, diag>>
    /\ UNCHANGED <<getLocals, getHistory>>
    /\ UNCHANGED <<tvars, lvars>>

\* The receive interrupt putting the byte it received twice.
USART2_RX_vect_PutTwice(b) ==
    /\ rxcie
    /\ arrived < MaxArrivals
    /\ LET p == RbufPut(uart2_ibuf, b)
           q == RbufPut(p.buf, b)
       IN  /\ uart2_ibuf' = q.buf
           /\ isr_ret' = p.ret
           /\ accepted' = IF p.ret < 0 THEN accepted ELSE Append(accepted, b)
           /\ diag' = IF p.ret < 0 THEN diag + 1 ELSE diag
    /\ arrived' = arrived + 1
    /\ gc_irq' = (gc_irq \/ pc = "gc_get")
    /\ CapAfterArrival(b)
    /\ UNCHANGED <<rxcie, txready, pc, m_c, u_op, u_ret, ini_ret, sent, pc_spun>>
    /\ UNCHANGED <<getLocals, getHistory>>
    /\ UNCHANGED <<tvars, lvars>>

\* ISR(USART2_RX_vect): if (rbuf_put(uart2_ibuf, UDR2) < 0) puts_P("USART2 rx Full!!!").
\* The handler runs with interrupts disabled: one step of the main flow's view.
USART2_RX_vect(b) ==
    /\ rxcie
    /\ arrived < MaxArrivals
    /\ LET p == RbufPut(uart2_ibuf, b)
       IN  /\ uart2_ibuf' = p.buf
           /\ isr_ret' = p.ret
           /\ accepted' = IF p.ret < 0 THEN accepted ELSE Append(accepted, b)
           /\ diag' = IF p.ret < 0 THEN diag + 1 ELSE diag
    /\ arrived' = arrived + 1
    /\ gc_irq' = (gc_irq \/ pc = "gc_get")
    /\ CapAfterArrival(b)
    /\ UNCHANGED <<rxcie, txready, pc, m_c, u_op, u_ret, ini_ret, sent, pc_spun>>
    /\ UNCHANGED <<getLocals, getHistory>>
    /\ UNCHANGED <<tvars, lvars>>



(***************************************************************************)
(* First layer calibration: lay1cal_load_filament.                         *)
(***************************************************************************)
\* Values of a tool number: the slots and "no slot loaded".
Tools == (0 .. MaxTool) \cup {FILAMENT_UNKNOWN}

MSG_M83 == "M83"

MSG_M702 == "M702"

\* enquecommandf_P(PSTR("T%d"), filament): the uint8_t printed in decimal.
ToolChangeCmd(filament) == "T" \o ToString(filament)

\* The three moves enqueued whenever the MMU is enabled.
PrepCmds == <<MSG_M83, "G1Y-3F1000", "G1Z0.4">>

\* lay1cal_load_filament unloading when no slot is loaded, not when one is.
Lay1calLoadFilament_UnloadUnknown(enabled, tool, filament) ==
    IF enabled
    THEN IF tool = filament
         THEN [cmds |-> PrepCmds, ret |-> FALSE]
         ELSE [cmds |-> PrepCmds
                        \o (IF tool = FILAMENT_UNKNOWN THEN <<MSG_M702>> ELSE <<>>)
                        \o <<ToolChangeCmd(filament)>>,
               ret |-> TRUE]
    ELSE [cmds |-> <<>>, ret |-> FALSE]

\* The body of lay1cal_load_filament: the commands it enqueues, in order, and
\* the value it returns.
Lay1calLoadFilament(enabled, tool, filament) ==
    IF enabled
    THEN IF tool = filament
         THEN [cmds |-> PrepCmds, ret |-> FALSE]
         ELSE [cmds |-> PrepCmds
                        \o (IF tool # FILAMENT_UNKNOWN THEN <<MSG_M702>> ELSE <<>>)
                        \o <<ToolChangeCmd(filament)>>,
               ret |-> TRUE]
    ELSE [cmds |-> <<>>, ret |-> FALSE]

\* Before the first call: nothing enqueued; the MMU is absent or present,
\* with any slot or none loaded.
InitLay1cal ==
    /\ mmu_enabled \in BOOLEAN
    /\ current_tool \in Tools
    /\ cmdqueue = <<>>
    /\ l_filament = 0
    /\ l_ret = FALSE
    /\ l_before = 0
    /\ l_calls = 0

\* bool lay1cal_load_filament(uint8_t filament)
lay1cal_load_filament(filament) ==
    /\ l_calls < MaxCalls
    /\ LET f == Lay1calLoadFilament(mmu_enabled, current_tool, filament)
       IN  /\ cmdqueue' = cmdqueue \o f.cmds
           /\ l_ret' = f.ret
    /\ l_filament' = filament
    /\ l_before' = Len(cmdqueue)
    /\ l_calls' = l_calls + 1
    /\ UNCHANGED <<mmu_enabled, current_tool>>
    /\ UNCHANGED <<tvars, uvars>>

(***************************************************************************)
(* Specifications.                                                         *)
(***************************************************************************)
NextTimer ==
    \/ Tick
    \/ start
    \/ \E p \in Periods(bits) : expired(p)
    \/ elapsed
    \/ \E p \in Periods(bits) : expired_cont(p)

\* The serial line as constructed, its transmitter ready.
UartIdle ==
    /\ InitUart
    /\ txready = TRUE

\* The calibration not called, no MMU.
Lay1calIdle ==
    /\ InitLay1cal
    /\ mmu_enabled = FALSE
    /\ current_tool = FILAMENT_UNKNOWN

\* A timer as constructed.
TimerIdle ==
    /\ InitTimer
    /\ bits = TimerBits
    /\ now = 0

InitSpecTimer ==
    /\ InitTimer
    /\ UartIdle
    /\ Lay1calIdle

\* The timer alone, the serial line left as constructed.
SpecTimer == InitSpecTimer /\ [][NextTimer]_vars

InitSpecUart ==
    /\ UartIdle
    /\ TimerIdle
    /\ Lay1calIdle

InitSpecTx ==
    /\ InitUart
    /\ TimerIdle
    /\ Lay1calIdle

\* The main flow sets the line up and then reads it; bytes arrive.
NextUart ==
    \/ uart2_init_rbuf
    \/ uart2_init_regs
    \/ uart2_init_rxcie
    \/ uart2_init_stream
    \/ uart2_getchar_check
    \/ rbuf_get_enter
    \/ rbuf_get_load
    \/ rbuf_get_store
    \/ \E b \in Bytes : USART2_RX_vect(b)

SpecUart == InitSpecUart /\ [][NextUart]_vars

\* The main flow sets the line up and then writes to it; the transmitter
\* takes the bytes; bytes arrive.
NextTx ==
    \/ uart2_init_rbuf
    \/ uart2_init_regs
    \/ uart2_init_rxcie
    \/ uart2_init_stream
    \/ \E c \in Bytes : uart2_putchar_call(c)
    \/ uart2_putchar_wait
    \/ uart2_putchar_write
    \/ TxComplete
    \/ \E b \in Bytes : USART2_RX_vect(b)

SpecTx == InitSpecTx /\ [][NextTx]_vars

\* The main flow executes its next instruction; the transmitter finishes the
\* byte it holds (the transport is assumed always eventually ready).
TxMainStep ==
    \/ uart2_init_rbuf
    \/ uart2_init_regs
    \/ uart2_init_rxcie
    \/ uart2_init_stream
    \/ uart2_putchar_wait
    \/ uart2_putchar_write

FairSpecTx == SpecTx /\ WF_vars(TxMainStep) /\ WF_vars(TxComplete)

InitSpecPoll ==
    /\ InitTimer
    /\ bits = TimerBits
    /\ UartIdle
    /\ Lay1calIdle

\* A caller that starts a timer and polls expired() while the counter runs.
NextPoll ==
    \/ start
    \/ Tick
    \/ \E p \in Periods(bits) : expired(p)

SpecPoll == InitSpecPoll /\ [][NextPoll]_vars

\* The counter source never stops: _millis() keeps advancing.
FairSpecPoll == SpecPoll /\ WF_vars(Tick)

\* sizeof(uart2_ibuf) of the builds that are compared: arrays too small for
\* rbuf_ini to accept, the smallest it accepts, and the array as declared.
ConfigSizes == (IbufOverhead .. (IbufOverhead + Reserve + 1)) \cup {IbufSize}

InitSpecConfig ==
    /\ \E size \in ConfigSizes : InitUartOf(size)
    /\ txready = TRUE
    /\ TimerIdle
    /\ Lay1calIdle

\* The main flow sets the line up and then reads it; bytes arrive. What
\* rbuf_put does with a buffer that rbuf_ini refused is not specified, so
\* arrivals are followed on an initialised buffer only.
NextConfig ==
    \/ uart2_init_rbuf
    \/ uart2_init_regs
    \/ uart2_init_rxcie
    \/ uart2_init_stream
    \/ uart2_getchar_check
    \/ rbuf_get_enter
    \/ rbuf_get_load
    \/ rbuf_get_store
    \/ \E b \in Bytes : uart2_ibuf.l >= Reserve + 1 /\ USART2_RX_vect(b)

SpecConfig == InitSpecConfig /\ [][NextConfig]_vars

InitSpecLay1cal ==
    /\ InitLay1cal
    /\ UartIdle
    /\ TimerIdle

\* The calibration asks for a filament, any slot number of a uint8_t that is tried.
NextLay1cal == \E filament \in Tools : lay1cal_load_filament(filament)

SpecLay1cal == InitSpecLay1cal /\ [][NextLay1cal]_vars

Init ==
    /\ InitTimer
    /\ InitUart
    /\ InitLay1cal

Next == NextTimer \/ NextUart \/ NextTx \/ NextLay1cal

Spec == Init /\ [][Next]_vars

(***************************************************************************)
(* Claims about Timer<T>, checked under SpecTimer.                         *)
(***************************************************************************)

\* C1: edge-triggered expiry. While less than one full wrap (2^W ticks) has
\* passed since start(), a poll of expired(period) returns true exactly when
\* no earlier poll since that start() returned true and at least period
\* ticks have passed (so the first such poll returns true, every poll before
\* it false and every poll after it false); the poll that returns true stops
\* the timer, and expired() returns true at most once per start(), also for
\* period 0.
C1_EdgeTriggeredExpiry ==
    /\ trues <= 1
    /\ m_isRunning = (everStarted /\ trues = 0)
    /\ (t_op = "expired" /\ everStarted /\ since < Mod(bits)) =>
          LET before == trues - (IF t_ret THEN 1 ELSE 0)
          IN  t_ret = (before = 0 /\ since >= t_arg)

\* A second immediate expired(0) after start() and a first expired(0) that
\* returned true: it returns false.
C1_Witness ==
    /\ t_op = "expired"
    /\ t_arg = 0
    /\ since = 0
    /\ trues = 1
    /\ t_ret = FALSE
    /\ ~m_isRunning

\* C2: on a running timer the two-branch comparison of expired(period)
\* returns true if and only if the wraparound subtraction now - started
\* (what elapsed() returns at the same counter value) is at least period,
\* for every started, now and period of T.
C2_TwoBranchIsSubtraction ==
    (t_op = "expired" /\ t_wasRunning) =>
        (t_ret = (ElapsedValue(m_started, now, TRUE, Mod(bits)) >= t_arg))

\* The deadline started + period has wrapped, the counter has wrapped too
\* and has reached the deadline: expired.
C2_Witness ==
    /\ t_op = "expired"
    /\ t_wasRunning
    /\ bits = TimerBits
    /\ m_started + t_arg >= Mod(bits)
    /\ now < m_started
    /\ t_ret = TRUE

\* C3: the expiry boundary is inclusive, across the wrap as well. The first
\* query after start() at counter value now0 returns false at counter value
\* now0 + period - 1 and true at now0 + period (sums in T), for every now0
\* and every period >= 1; the 16-bit timer started at 65530 with period 10
\* reports false at 3 and true at 4.
C3_InclusiveBoundary ==
    (t_op = "expired" /\ t_wasRunning /\ polls = 1 /\ t_arg >= 1) =>
        /\ (now = (m_started + t_arg - 1) % Mod(bits)) => (t_ret = FALSE)
        /\ (now = (m_started + t_arg) % Mod(bits)) => (t_ret = TRUE)

\* The 16-bit timer started at 65530, first queried with period 10 at 4.
C3_Witness ==
    /\ bits = ShortBits
    /\ t_op = "expired"
    /\ polls = 1
    /\ t_wasRunning
    /\ m_started = 65530
    /\ t_arg = 10
    /\ now = 4
    /\ t_ret = TRUE

(***************************************************************************)
(* Claims about the second serial line.                                    *)
(***************************************************************************)
\* Usable capacity U of the inbound ring buffer.
UsableCap == IbufLen - Reserve

IsPrefix(a, b) == Len(a) <= Len(b) /\ SubSeq(b, 1, Len(a)) = a

\* The bytes between the read and the write position, oldest first.
Stored(buf) ==
    [i \in 1 .. ((buf.w - buf.r + buf.l) % buf.l) |-> buf.data[(buf.r + i - 1) % buf.l]]

\* C4 (SpecUart): FIFO under preemption. With the receive interrupt firing
\* between any two steps of the main flow, the bytes uart2_getchar has
\* returned are a prefix of the arrived bytes whose put did not report Full,
\* the buffer holds exactly the remaining ones in order (nothing duplicated,
\* reordered, corrupted or lost), and every arrived byte was either accepted
\* or reported Full.
C4_FifoUnderPreemption ==
    /\ IsPrefix(received, accepted)
    /\ uart2_ibuf.l > 0 => Stored(uart2_ibuf) = Pending
    /\ arrived = Len(accepted) + diag

\* An overflow has occurred, the write position has wrapped, the interrupt
\* fired inside the last uart2_getchar call, and that call returned a byte.
C4_Witness ==
    /\ pc = "idle"
    /\ u_op = "getchar"
    /\ u_ret # -1
    /\ gc_irq
    /\ diag >= 1
    /\ Len(accepted) > UsableCap
    /\ Len(received) >= UsableCap

\* C5 (SpecUart): overflow handling. A run of the receive interrupt on a full
\* buffer gets Full from put, leaves the write position, the read position
\* and every stored byte as they were, prints the diagnostic once, accepts
\* nothing, and leaves the main flow where it was; it is never kept waiting
\* for the consumer: on a full buffer the handler can run to completion.
C5_OverflowDropsByte ==
    /\ [][(arrived' # arrived /\ RbufFull(uart2_ibuf)) =>
            /\ isr_ret' = -1
            /\ uart2_ibuf' = uart2_ibuf
            /\ diag' = diag + 1
            /\ accepted' = accepted
            /\ arrived' = arrived + 1
            /\ pc' = pc]_vars
    /\ [][(arrived' # arrived /\ ~RbufFull(uart2_ibuf)) => diag' = diag]_vars
    /\ []((rxcie /\ arrived < MaxArrivals /\ RbufFull(uart2_ibuf))
            => ENABLED (\E b \in Bytes : USART2_RX_vect(b)))

\* The handler has just dropped a byte while the consumer was inside rbuf_get.
C5_Witness ==
    /\ isr_ret = -1
    /\ diag >= 1
    /\ RbufFull(uart2_ibuf)
    /\ pc = "gc_load"
    /\ arrived = Len(accepted) + diag

\* C6 (SpecUart): after init the write and the read position are indices in
\* [0, C), C = sizeof(uart2_ibuf) - 4, and the number of bytes stored (accepted
\* and not yet returned, which is also what the two positions say) is at
\* most U.
C6_RingBufferInvariant ==
    pc # "boot" =>
        /\ uart2_ibuf.w \in 0 .. (IbufLen - 1)
        /\ uart2_ibuf.r \in 0 .. (IbufLen - 1)
        /\ Len(Pending) <= UsableCap
        /\ Len(Pending) = (uart2_ibuf.w - uart2_ibuf.r + IbufLen) % IbufLen

\* The buffer is full and the write position has wrapped behind the read position.
C6_Witness ==
    /\ Len(Pending) = UsableCap
    /\ uart2_ibuf.w < uart2_ibuf.r
    /\ pc = "gc_store"

\* C7 (SpecUart): exact capacity. While bytes arrive into a buffer that was
\* empty and nothing is taken, the k-th put succeeds for k <= U and reports
\* Full for k = U + 1, and exactly the first min(k, U) bytes are accepted;
\* the calls of uart2_getchar that follow U + 1 such arrivals return the
\* first U bytes in order and then -1: the (U+1)-th byte never appears.
C7_ExactCapacity ==
    LET k == Len(capBytes)
        n == IF k <= UsableCap THEN k ELSE UsableCap
    IN  /\ (capPhase = "fill" /\ k >= 1) => (isr_ret = IF k <= UsableCap THEN 0 ELSE -1)
        /\ capPhase \in {"fill", "drain"} =>
              /\ Len(accepted) = capStart + n
              /\ \A i \in 1 .. n : accepted[capStart + i] = capBytes[i]
        /\ (capPhase = "drain" /\ k = UsableCap + 1) =>
              /\ Len(capGot) <= UsableCap + 1
              /\ \A i \in 1 .. Len(capGot) :
                    capGot[i] = IF i <= UsableCap THEN capBytes[i] ELSE -1

\* U + 1 bytes arrived into the empty buffer; U + 1 calls of uart2_getchar followed.
C7_Witness ==
    /\ capPhase = "drain"
    /\ Len(capBytes) = UsableCap + 1
    /\ Len(capGot) = UsableCap + 1
    /\ capGot[UsableCap + 1] = -1
    /\ pc = "idle"

\* C8 (SpecUart): round trip and emptiness. rbuf_empty (read position equals
\* write position) holds exactly when no accepted byte is waiting; n <= U
\* bytes put into the empty buffer and then read come back as the same n
\* bytes in the same order, followed by -1, the buffer being empty before the
\* first put, not empty until the n-th get has completed, and empty after it.
C8_RoundTrip ==
    LET n == Len(capBytes)
    IN  /\ pc # "boot" => (RbufEmpty(uart2_ibuf) <=> Pending = <<>>)
        /\ capPhase = "fill" => (RbufEmpty(uart2_ibuf) <=> n = 0)
        /\ (capPhase = "drain" /\ n <= UsableCap) =>
              /\ Len(capGot) <= n + 1
              /\ \A i \in 1 .. Len(capGot) :
                    capGot[i] = IF i <= n THEN capBytes[i] ELSE -1
              /\ RbufEmpty(uart2_ibuf) <=> Len(capGot) >= n

\* Usable capacity 4; 0x41, 0x42, 0x43 arrived; three calls returned them and
\* the fourth returned -1.
C8_Witness ==
    /\ UsableCap = 4
    /\ capPhase = "drain"
    /\ capBytes = <<65, 66, 67>>
    /\ capGot = <<65, 66, 67, -1>>
    /\ received = <<65, 66, 67>>
    /\ u_ret = -1
    /\ pc = "idle"

\* C9 (FairSpecTx): blocking write. uart2_putchar leaves its wait only when
\* uart2_txready is true; the only write to UDR2 is of its argument, once,
\* with uart2_txready true, and it returns with that write, never without it;
\* if the transmitter always eventually becomes ready, every call returns.
C9_BlockingWrite ==
    /\ [][(pc = "pc_wait" /\ pc' # "pc_wait") => (txready /\ pc' = "pc_write")]_vars
    /\ [][sent' # sent =>
            /\ pc = "pc_write"
            /\ txready
            /\ sent' = Append(sent, m_c)
            /\ pc' = "idle"]_vars
    /\ [][(pc \in {"pc_wait", "pc_write"} /\ pc' = "idle") => Len(sent') = Len(sent) + 1]_vars
    /\ [][(pc = "idle" /\ pc' = "pc_wait") => m_c' \in Bytes]_vars
    /\ (pc = "pc_wait") ~> (pc = "idle")

\* A call that found the transmitter busy, waited, wrote its byte and returned.
C9_Witness ==
    /\ pc = "idle"
    /\ u_op = "putchar"
    /\ pc_spun
    /\ Len(sent) >= 1
    /\ ~txready

\* The steps of uart2_getchar.
GetcharStep ==
    \/ uart2_getchar_check
    \/ rbuf_get_enter
    \/ rbuf_get_load
    \/ rbuf_get_store

\* C10 (SpecUart): non-blocking read. A call that found the buffer empty at
\* its emptiness check returned -1 with the read position where it was; any
\* other call returned the byte that was the oldest one buffered at the check
\* and advanced the read position by one, also when the receive interrupt
\* fired between the check and rbuf_get. No step of uart2_getchar changes the
\* write position, the length or a stored byte, each step moves on, and the
\* next step can always be taken: the call never waits.
C10_NonBlockingRead ==
    /\ []((pc = "idle" /\ u_op = "getchar") =>
            IF gc_oldest = -1
            THEN u_ret = -1 /\ uart2_ibuf.r = gc_r0
            ELSE u_ret = gc_oldest /\ uart2_ibuf.r = (gc_r0 + 1) % IbufLen)
    /\ [][(arrived' = arrived /\ pc \in GetPcs \cup {"idle"}) =>
            /\ uart2_ibuf'.w = uart2_ibuf.w
            /\ uart2_ibuf'.l = uart2_ibuf.l
            /\ uart2_ibuf'.data = uart2_ibuf.data
            /\ (uart2_ibuf'.r # uart2_ibuf.r => pc = "gc_store")
            /\ (pc \in GetPcs => pc' # pc)]_vars
    /\ [](pc \in GetPcs \cup {"idle"} => ENABLED GetcharStep)

\* The interrupt fired between the emptiness check and rbuf_get, and the call
\* returned the oldest byte.
C10_Witness ==
    /\ pc = "idle"
    /\ u_op = "getchar"
    /\ gc_irq
    /\ u_ret = gc_oldest
    /\ u_ret # -1

(***************************************************************************)
(* Further claims about Timer<T>, checked under SpecTimer.                 *)
(***************************************************************************)

\* C11 (SpecTimer): level-triggered expiry. expired_cont(period) returns true
\* if and only if the timer was not running or the comparison of
\* expired(period) says true at that counter value; so it returns true on a
\* timer that was never started, a call that returned true leaves the timer
\* not running, a timer that is not running starts running only by start(),
\* and every call on a timer that is not running returns true: once true,
\* true on every later call until start().
C11_LevelTriggeredExpiry ==
    /\ []((t_op = "expired_cont") =>
            /\ t_ret = (~t_wasRunning \/ ExpiredCmp(m_started, now, t_arg, Mod(bits)))
            /\ (~everStarted => t_ret = TRUE)
            /\ (t_ret = TRUE => ~m_isRunning))
    /\ [][(~m_isRunning /\ m_isRunning') => t_op' = "start"]_vars
    /\ [][(~m_isRunning /\ t_op' = "expired_cont") => t_ret' = TRUE]_vars

\* expired_cont on a timer that expired earlier: it was not running, less
\* than the period has passed on the counter since it was started, and the
\* call returns true all the same.
C11_Witness ==
    /\ t_op = "expired_cont"
    /\ everStarted
    /\ ~t_wasRunning
    /\ trues = 1
    /\ ~ExpiredCmp(m_started, now, t_arg, Mod(bits))
    /\ t_ret = TRUE

\* C12 (SpecTimer): elapsed() is a pure query. On a running timer it returns
\* (now - started) mod 2^W, which is the number of ticks since start() while
\* less than a wrap has passed (5 when asked 5 ticks after start); on a timer
\* that is not running it returns 0; it changes neither started nor running
\* nor the counter, so that what expired(p) and expired_cont(p) would return
\* is the same before and after it, for every p.
C12_ElapsedIsPure ==
    /\ []((t_op = "elapsed") =>
            /\ (m_isRunning => t_ret = (now - m_started + Mod(bits)) % Mod(bits))
            /\ (m_isRunning /\ since < Mod(bits) => t_ret = since)
            /\ (~m_isRunning => t_ret = 0))
    /\ [][(t_op' = "elapsed") =>
            /\ m_started' = m_started
            /\ m_isRunning' = m_isRunning
            /\ now' = now
            /\ \A p \in Periods(bits) : ExpiredBody(p)' = ExpiredBody(p)]_vars

\* elapsed() asked 5 ticks after start() on a counter that has wrapped since.
C12_Witness ==
    /\ t_op = "elapsed"
    /\ m_isRunning
    /\ since = 5
    /\ now < m_started
    /\ t_ret = 5

\* C14 (SpecTimer): a timer that is not running (never started, or its
\* expiry has been reported) answers false to expired(period) for every
\* period and counter value and 0 to elapsed(); it is not running exactly
\* before the first start() and after an expiry was reported.
C14_NotRunningIsQuiet ==
    /\ (~m_isRunning) =>
            /\ \A p \in Periods(bits) : ExpiredBody(p).ret = FALSE
            /\ ElapsedValue(m_started, now, m_isRunning, Mod(bits)) = 0
    /\ (t_op = "expired" /\ ~t_wasRunning) => t_ret = FALSE
    /\ (t_op = "elapsed" /\ ~t_wasRunning) => t_ret = 0
    /\ (~m_isRunning) = (~everStarted \/ trues >= 1)

\* expired(period) on a timer whose expiry was reported earlier, at a counter
\* value where the comparison with started says "expired": it returns false.
C14_Witness ==
    /\ t_op = "expired"
    /\ ~t_wasRunning
    /\ everStarted
    /\ trues = 1
    /\ now # m_started
    /\ ExpiredCmp(m_started, now, t_arg, Mod(bits))
    /\ t_ret = FALSE

\* C19 (SpecTimer): frame of a negative expiry check. A call of
\* expired(period) that returns false leaves started and running as they
\* were; no call of expired() or expired_cont() writes started; started is
\* written by start() alone; running goes from true to false only in a call
\* of expired() or expired_cont() that returns true.
C19_NegativeCheckFrame ==
    /\ [][(t_op' = "expired" /\ t_ret' = FALSE) =>
            (m_started' = m_started /\ m_isRunning' = m_isRunning)]_vars
    /\ [][(t_op' \in {"expired", "expired_cont"}) => m_started' = m_started]_vars
    /\ [][(m_started' # m_started) => t_op' = "start"]_vars
    /\ [][(m_isRunning /\ ~m_isRunning') =>
            (t_op' \in {"expired", "expired_cont"} /\ t_ret' = TRUE)]_vars

\* expired(period) returned false on a running timer some ticks after
\* start(): the timer is still running.
C19_Witness ==
    /\ t_op = "expired"
    /\ t_wasRunning
    /\ t_ret = FALSE
    /\ m_isRunning
    /\ since >= 2
    /\ t_arg > since

\* C13 (SpecTimer): start() has no precondition and re-arms the timer from
\* any state. It can be called in every reachable state; after it the timer
\* is running and started is the counter value at the call, whether the timer
\* had never been started, was running or had expired; an expired() call on
\* the running timer answers by the ticks since the last start() (a restart
\* of a running timer measures the period from the new start), and after a
\* restart expired() reports true again.
C13_StartRearms ==
    /\ []((t_op = "start") =>
            /\ m_isRunning
            /\ m_started = now
            /\ since = 0
            /\ trues = 0)
    /\ [](ENABLED start)
    /\ []((t_op = "expired" /\ t_wasRunning /\ since < Mod(bits)) => t_ret = (since >= t_arg))
    /\ [][(t_op' = "start" /\ starts' # starts) => (m_started' = now /\ m_isRunning')]_vars

\* The timer was started a second time, and expired(period) has reported
\* true period ticks after that restart, period being at least 1.
C13_Witness ==
    /\ starts = 2
    /\ t_op = "expired"
    /\ t_wasRunning
    /\ t_arg >= 1
    /\ since = t_arg
    /\ now = (m_started + t_arg) % Mod(bits)
    /\ t_ret = TRUE

(***************************************************************************)
(* The polling obligation of expired(), checked under FairSpecPoll (C15)   *)
(* and SpecTimer (C16).                                                    *)
(***************************************************************************)

\* The caller started the timer once and has just done so.
JustStarted == starts = 1 /\ t_op = "start"

\* What ends the obligation of a caller polling expired(p) after one start():
\* the expiry was reported, the caller polled with another period, or it
\* started the timer again.
PollingOver(p) ==
    \/ trues >= 1
    \/ (t_op = "expired" /\ t_arg # p)
    \/ starts >= 2

\* C15 as the specification states it (FairSpecPoll): a caller that after
\* start() never lets 2^W ticks pass without a poll of expired(period) has
\* the expiry detected: some poll returns true.
C15_PollOncePerWrapDetects ==
    \A p \in Periods(TimerBits) :
        JustStarted ~> (PollingOver(p) \/ gap >= Mod(bits))

\* C15, amended (FairSpecPoll): the expiry is detected if no more than
\* 2^W - period ticks pass from start() to the first poll and between
\* consecutive polls. Then the first poll made when period ticks or more have
\* passed returns true, and a caller that keeps to it gets the expiry
\* reported. Gaps of less than 2^W ticks are not enough: a poll can fall
\* after the window [started + period, started + 2^W) has closed, and the
\* expiry is then missed, possibly for ever.
C15_PollWithinWindowDetects ==
    /\ [][(/\ m_isRunning
           /\ t_op' = "expired"
           /\ since >= t_arg'
           /\ (polls = 0 \/ since - gap < t_arg')
           /\ gap <= Mod(bits) - t_arg') => t_ret' = TRUE]_vars
    /\ \A p \in Periods(TimerBits) :
          JustStarted ~> (PollingOver(p) \/ gap > Mod(bits) - p)

\* A second poll of a timer started once, one tick before a full wrap since
\* start(), the first poll having been made before the period was over: true.
C15_Witness ==
    /\ starts = 1
    /\ t_op = "expired"
    /\ t_wasRunning
    /\ polls = 2
    /\ t_arg >= 2
    /\ since = Mod(bits) - 1
    /\ t_ret = TRUE

\* C16 (SpecTimer): the polling obligation as the comment of expired() states
\* it. If no more than (maximum value of T) - msPeriod ticks pass from
\* start() to the first call of expired(msPeriod) and between consecutive
\* calls, the first call made at or after started + msPeriod returns true,
\* for every started and msPeriod of T.
C16_PollWithinMaxMinusPeriod ==
    [][(/\ m_isRunning
        /\ t_op' = "expired"
        /\ since >= t_arg'
        /\ (polls = 0 \/ since - gap < t_arg')
        /\ gap <= (Mod(bits) - 1) - t_arg') => t_ret' = TRUE]_vars

\* The deadline started + msPeriod wrapped; after a first call before the
\* deadline, the call made after the counter wrapped too returns true.
C16_Witness ==
    /\ t_op = "expired"
    /\ t_wasRunning
    /\ polls = 2
    /\ bits = TimerBits
    /\ m_started + t_arg >= Mod(bits)
    /\ since > t_arg
    /\ since < Mod(bits) - 1
    /\ t_ret = TRUE

(***************************************************************************)
(* Further claims about the second serial line.                            *)
(***************************************************************************)

\* Positions of the main flow in uart2_init before the receive interrupt is
\* enabled.
InitPcsBeforeRx == {"boot", "ini_regs", "ini_rxcie"}

\* C17 (SpecUart): initialisation ordering. uart2_init has initialised the
\* inbound ring buffer, to empty, before it enables the receive interrupt:
\* the interrupt is enabled only in states where rbuf_ini has run and
\* succeeded, the buffer is empty at the moment the interrupt is enabled,
\* the receive handler never performs a put on a buffer that has not been
\* initialised, and from the moment uart2_init has enabled the interrupt
\* (so also when it has returned) the interrupt stays enabled.
C17_InitBeforeRxInterrupt ==
    /\ [](rxcie => (uart2_ibuf.l = IbufLen /\ ini_ret = 0 /\ u_op # "none"))
    /\ [](pc \in InitPcsBeforeRx => (~rxcie /\ arrived = 0))
    /\ [](pc = "ini_rxcie" => (RbufEmpty(uart2_ibuf) /\ uart2_ibuf.l = IbufLen))
    /\ [][(arrived' # arrived) =>
            (rxcie /\ uart2_ibuf.l >= Reserve + 1 /\ pc \notin InitPcsBeforeRx)]_vars
    /\ [](pc \notin InitPcsBeforeRx => rxcie)

\* The receive interrupt fired right after it was enabled, before uart2_init
\* returned, and its byte is in the buffer rbuf_ini had set up.
C17_Witness ==
    /\ pc = "ini_stream"
    /\ rxcie
    /\ arrived = 1
    /\ Len(accepted) = 1
    /\ Stored(uart2_ibuf) = accepted
    /\ uart2_ibuf.w = 1
    /\ uart2_ibuf.r = 0

LastEnqueued == SubSeq(cmdqueue, l_before + 1, Len(cmdqueue))

InSeq(x, q) == \E i \in 1 .. Len(q) : q[i] = x

\* C20 (SpecLay1cal): lay1cal_load_filament(filament) returns true if and
\* only if it enqueued the toolchange T<filament>, which it does exactly
\* when the MMU is enabled and the current tool is not filament; then the
\* toolchange is the last command, after the three preparatory moves, with
\* the unload M702 right before it if and only if the current tool is not
\* FILAMENT_UNKNOWN; with the MMU disabled it enqueues nothing and returns
\* false; with the requested tool already loaded it enqueues the three
\* preparatory moves alone and returns false.
C20_LoadFilament ==
    (l_calls >= 1) =>
        LET enq == LastEnqueued
            tc == ToolChangeCmd(l_filament)
        IN  /\ l_ret = InSeq(tc, enq)
            /\ InSeq(tc, enq) = (mmu_enabled /\ current_tool # l_filament)
            /\ l_ret =>
                  /\ InSeq(MSG_M702, enq) = (current_tool # FILAMENT_UNKNOWN)
                  /\ enq = (IF current_tool # FILAMENT_UNKNOWN
                            THEN PrepCmds \o <<MSG_M702, tc>>
                            ELSE PrepCmds \o <<tc>>)
            /\ ~l_ret => ~InSeq(MSG_M702, enq)
            /\ ~mmu_enabled => (enq = <<>> /\ l_ret = FALSE)
            /\ (mmu_enabled /\ current_tool = l_filament) => (enq = PrepCmds /\ l_ret = FALSE)

\* Slot 1 is loaded and filament 3 is asked for, in a second call: the
\* unload and then the toolchange follow the preparatory moves.
C20_Witness ==
    /\ l_calls = 2
    /\ mmu_enabled
    /\ current_tool = 1
    /\ l_filament = 3
    /\ l_ret = TRUE
    /\ LastEnqueued = <<"M83", "G1Y-3F1000", "G1Z0.4", "M702", "T3">>

====
